---- MODULE Spec2Model ----
(***************************************************************************)
(* Hash-signature generators of d3l/indexing/hashing/hash_generators.py:   *)
(* BaseHashGenerator (generate_hashes, similarity_score),                  *)
(* MinHashHashGenerator and RandomProjectionsHashGenerator.                *)
(*                                                                         *)
(* Numbers wider than TLC's integers (the uint64 coefficients, the 32-bit  *)
(* token hashes, their products) are little-endian sequences of bytes: a   *)
(* uint64 is 8 bytes, and arithmetic "mod 2^64" keeps 8 bytes of the       *)
(* result, as numpy's uint64 arrays do.                                    *)
(***************************************************************************)
EXTENDS Integers, Sequences, FiniteSets, TLC

VARIABLES gens, heap, ret, kept, calls, iter, thr, sim, fold

vars == <<gens, heap, ret, kept, calls, iter, thr, sim, fold>>

(***************************************************************************)
(* Byte-sequence arithmetic.                                               *)
(***************************************************************************)
Byte == 2^8

\* bytes of a uint64 (dtype=np.uint64) and of an exact 96-bit intermediate
U64Bytes == 64 \div 8
WideBytes == 96 \div 8

Zero(n) == [i \in 1..n |-> 0]

\* x widened (or cut) to n bytes
Resize(x, n) == [i \in 1..n |-> IF i <= Len(x) THEN x[i] ELSE 0]

IsZero(x) == \A i \in 1..Len(x) : x[i] = 0

RECURSIVE CarryFrom(_, _, _)
\* column sums cols[i..] with incoming carry c, as bytes; the carry out of
\* the last column is dropped (arithmetic modulo 2^(8*Len(cols)))
CarryFrom(cols, i, c) ==
    IF i > Len(cols) THEN <<>>
    ELSE LET t == cols[i] + c
         IN  <<t % Byte>> \o CarryFrom(cols, i + 1, t \div Byte)

\* (x + y) mod 2^(8n)
AddW(x, y, n) ==
    CarryFrom([i \in 1..n |-> Resize(x, n)[i] + Resize(y, n)[i]], 1, 0)

RECURSIVE ColSum(_, _, _, _)
\* sum of x[k-j+1] * y[j] over j in j..Len(y)
ColSum(x, y, k, j) ==
    IF j > Len(y) THEN 0
    ELSE (IF k - j + 1 >= 1 /\ k - j + 1 <= Len(x) THEN x[k - j + 1] * y[j] ELSE 0)
         + ColSum(x, y, k, j + 1)

\* (x * y) mod 2^(8n)
MulW(x, y, n) == CarryFrom([k \in 1..n |-> ColSum(x, y, k, 1)], 1, 0)

RECURSIVE LessFrom(_, _, _)
\* x < y, compared from byte i downward (x, y of equal length)
LessFrom(x, y, i) ==
    IF i = 0 THEN FALSE
    ELSE IF x[i] # y[i] THEN x[i] < y[i]
    ELSE LessFrom(x, y, i - 1)

Less(x, y) ==
    LET n == IF Len(x) >= Len(y) THEN Len(x) ELSE Len(y)
    IN  LessFrom(Resize(x, n), Resize(y, n), n)

LessEq(x, y) == ~Less(y, x)

\* the same number, whatever the width
NumEq(x, y) == ~Less(x, y) /\ ~Less(y, x)

RECURSIVE AndNat(_, _)
\* bitwise AND of two naturals
AndNat(a, b) ==
    IF a = 0 \/ b = 0 THEN 0
    ELSE (a % 2) * (b % 2) + 2 * AndNat(a \div 2, b \div 2)

\* np.bitwise_and on two uint64 values
BitAnd(x, y) == [i \in 1..U64Bytes |-> AndNat(Resize(x, U64Bytes)[i], Resize(y, U64Bytes)[i])]

\* x div 2^61: drop 7 bytes, then shift right by 5 bits
Hi61(x) ==
    LET y == SubSeq(x, 8, Len(x))
    IN  [i \in 1..Len(y) |->
            (y[i] \div 32) + (IF i < Len(y) THEN (y[i + 1] % 32) * 8 ELSE 0)]

\* x mod 2^61
Lo61(x) == [i \in 1..U64Bytes |-> IF i < 8 THEN x[i] ELSE x[i] % 32]

\* http://en.wikipedia.org/wiki/Mersenne_prime : 2^61 - 1
MERSENNE_PRIME == <<255, 255, 255, 255, 255, 255, 255, 31>>
\* 2^32 - 1
MAX_HASH == <<255, 255, 255, 255, 0, 0, 0, 0>>

RECURSIVE ModMersenne(_)
\* x % MERSENNE_PRIME for x of at least 8 bytes: 2^61 = 1 modulo 2^61 - 1, so
\* x = hi * 2^61 + lo is congruent to hi + lo
ModMersenne(x) ==
    IF Len(x) < U64Bytes THEN ModMersenne(Resize(x, U64Bytes))
    ELSE IF IsZero(Hi61(x))
         THEN (IF NumEq(x, MERSENNE_PRIME) THEN Zero(U64Bytes) ELSE Resize(x, U64Bytes))
         ELSE ModMersenne(AddW(Lo61(x), Hi61(x), Len(x)))


(***************************************************************************)
(* Optional values, numpy arrays, call outcomes.                           *)
(***************************************************************************)
NoValue == <<>>
Some(x) == <<x>>
Get(o) == o[1]

\* an ndarray: its shape and its elements in row-major order
NdArray(shape, data) == [shape |-> shape, data |-> data]

RECURSIVE Prod(_)
Prod(shape) == IF shape = <<>> THEN 1 ELSE Head(shape) * Prod(Tail(shape))

\* an array of the given shape holding c everywhere
Full(shape, c) == NdArray(shape, [k \in 1..Prod(shape) |-> c])

Returned(v) == [status |-> "ok", value |-> Some(v)]
Raised(e) == [status |-> e, value |-> NoValue]

(***************************************************************************)
(* Bounds.                                                                 *)
(***************************************************************************)
MaxHashSize == 2
MaxTokens == 2
MaxCalls == 2
MaxRecords == 2
MaxSigLen == 3

HashSizes == 1..MaxHashSize

RECURSIVE SeqsUpTo(_, _)
\* the sequences over S of length at most n
SeqsUpTo(S, n) ==
    IF n = 0 THEN {<<>>}
    ELSE LET shorter == SeqsUpTo(S, n - 1)
         IN  shorter \cup {Append(q, x) : q \in {r \in shorter : Len(r) = n - 1}, x \in S}

(***************************************************************************)
(* The seeded random source, np.random.RandomState(seed): a stream that    *)
(* is a function of the seed and of the number of values drawn so far.     *)
(* The tables hold what MT19937 seeded with 0 and with 12345 delivers.     *)
(***************************************************************************)
Seeds == {0, 12345}

\* the 61-bit variates that randint(low, MERSENNE_PRIME, dtype=uint64) adds to low
UniformTable(seed) ==
    IF seed = 12345
    THEN << <<229, 45, 225, 227, 226, 81, 251, 13>>,
            <<129, 8, 118, 33, 29, 253, 253, 16>>,
            <<169, 173, 45, 10, 164, 77, 21, 15>>,
            <<126, 81, 145, 211, 254, 15, 94, 20>>,
            <<34, 66, 54, 136, 101, 109, 86, 17>>,
            <<1, 187, 208, 244, 29, 158, 117, 24>>,
            <<113, 205, 64, 118, 118, 108, 234, 22>>,
            <<142, 26, 122, 236, 59, 157, 54, 7>> >>
    ELSE << <<47, 170, 196, 151, 172, 10, 127, 12>>,
            <<192, 204, 33, 216, 117, 166, 22, 23>>,
            <<251, 82, 162, 219, 67, 179, 78, 26>>,
            <<103, 125, 229, 216, 195, 118, 125, 11>>,
            <<211, 222, 161, 159, 9, 164, 116, 12>>,
            <<242, 214, 102, 98, 21, 81, 89, 5>>,
            <<87, 58, 43, 76, 36, 183, 5, 16>>,
            <<216, 189, 132, 14, 70, 60, 75, 4>> >>

\* the standard-normal variates of randn, in thousandths
NormalTable(seed) ==
    IF seed = 12345
    THEN <<-205, 479, -519, -556, 1966, 1393, 93, 282, 769, 1246, 1007, -1296>>
    ELSE <<1764, 400, 979, 2241, 1868, -977, 950, -151, -103, 411, 144, 1454>>

\* the k-th entry of a table, the table repeating beyond its end
Cyclic(table, k) == table[((k - 1) % Len(table)) + 1]

RandomState(seed) == [seed |-> seed, drawn |-> 0]

\* generator.randint(low, MERSENNE_PRIME, dtype=np.uint64) as the n-th draw
randint(rs, n, low) == AddW(low, Cyclic(UniformTable(rs.seed), rs.drawn + n), U64Bytes)

\* generator.randn(rows, cols), drawn row by row
randn(rs, rows, cols) ==
    [i \in 1..rows |-> [j \in 1..cols |->
        Cyclic(NormalTable(rs.seed), rs.drawn + (i - 1) * cols + j)]]

One64 == <<1, 0, 0, 0, 0, 0, 0, 0>>

(***************************************************************************)
(* BaseHashGenerator.__init__ and MinHashHashGenerator.                    *)
(***************************************************************************)
BaseInit(kind, hash_size, seed) ==
    [kind |-> kind, hash_size |-> hash_size, seed |-> seed,
     generator |-> RandomState(seed)]

\* np.array([(randint(1, P), randint(0, P)) for _ in range(hash_size)]).T :
\* row 1 holds the a_i, row 2 the b_i; the draws alternate a_1, b_1, a_2, ...
DrawPermutations(rs, hash_size) ==
    NdArray(<<2, hash_size>>,
            [k \in 1..(2 * hash_size) |->
                IF k <= hash_size
                THEN randint(rs, 2 * k - 1, One64)
                ELSE randint(rs, 2 * (k - hash_size), Zero(U64Bytes))])

MinHashInit(hash_size, seed) ==
    LET base == BaseInit("MinHash", hash_size, seed)
    IN  [kind |-> base.kind, hash_size |-> base.hash_size, seed |-> base.seed,
         generator |-> [base.generator EXCEPT !.drawn = 2 * hash_size],
         permutations |-> DrawPermutations(base.generator, hash_size)]

\* np.array(new_permutations, dtype=np.uint64): a copy with uint64 elements
AsUint64(arr) ==
    NdArray(arr.shape, [k \in 1..Len(arr.data) |-> Resize(arr.data[k], U64Bytes)])

\* MinHashHashGenerator.set_hash_permutations: the outcome and the generator after.
\* shape[0] of a 0-d array and shape[1] of a 1-d array raise IndexError; the
\* `or` does not evaluate shape[1] when shape[0] != 2.
MinHashSetPermutations(g, new_permutations) ==
    LET shape == new_permutations.shape
    IN  IF Len(shape) < 1 THEN [out |-> Raised("IndexError"), gen |-> g]
        ELSE IF shape[1] # 2 THEN [out |-> Raised("ValueError"), gen |-> g]
        ELSE IF Len(shape) < 2 THEN [out |-> Raised("IndexError"), gen |-> g]
        ELSE IF shape[2] # g.hash_size THEN [out |-> Raised("ValueError"), gen |-> g]
        ELSE [out |-> [status |-> "ok", value |-> NoValue],
              gen |-> [g EXCEPT !.permutations = AsUint64(new_permutations)]]

\* coefficient values a caller may load: 0, 3 and MERSENNE_PRIME itself
Fills == {Zero(U64Bytes), <<3, 0, 0, 0, 0, 0, 0, 0>>, MERSENNE_PRIME}

\* shapes that set_hash_permutations lets through, and shapes it does not
GoodShapes(hash_size) == {<<2, hash_size>>, <<2, hash_size, 1>>}
BadShapes(hash_size) ==
    {<<>>, <<2>>, <<hash_size + 2>>, <<3, hash_size>>, <<1, hash_size>>,
     <<2, hash_size + 1>>, <<3, hash_size, 1>>}

\* arguments of set_hash_permutations: constant arrays of these shapes, and the
\* permutations of a generator constructed elsewhere
PermArgs(hash_size) ==
    {Full(shape, c) : shape \in GoodShapes(hash_size), c \in Fills}
    \cup {Full(shape, Zero(U64Bytes)) : shape \in BadShapes(hash_size)}
    \cup {DrawPermutations(RandomState(seed), hash_size) : seed \in Seeds}

\* mmh3.hash(str(value).encode("utf-8", errors="ignore"), signed=False):
\* MurmurHash3 x86-32 with seed 0, an unsigned 32-bit value
Tokens == {"a", "b"}
mmh3_hash(value) ==
    CASE value = "a" -> <<178, 105, 37, 60>>
      [] value = "b" -> <<3, 126, 222, 149>>

TokenLists == SeqsUpTo(Tokens, MaxTokens)

\* (a * encoded + b) % MERSENNE_PRIME & MAX_HASH on uint64 operands: the
\* product and the sum are taken modulo 2^64
PermuteU64(a, b, encoded) ==
    BitAnd(ModMersenne(AddW(MulW(a, encoded, U64Bytes), b, U64Bytes)), MAX_HASH)

\* the rows of self._permutations: perm_left, perm_right = self._permutations
PermRow(perms, r) ==
    LET n == Prod(Tail(perms.shape))
    IN  NdArray(Tail(perms.shape), SubSeq(perms.data, (r - 1) * n + 1, r * n))

\* every (a_i, b_i) a generator of the model can hold, with every token hash
PermuteDomain ==
    LET arrays == UNION {{p \in PermArgs(n) : p.shape \in GoodShapes(n)} : n \in HashSizes}
        pairs(p) == {<<PermRow(p, 1).data[k], PermRow(p, 2).data[k]>> :
                        k \in 1..Len(PermRow(p, 1).data)}
    IN  {<<ab[1], ab[2], Resize(mmh3_hash(t), U64Bytes)>> :
            ab \in UNION {pairs(p) : p \in arrays}, t \in Tokens}

\* PermuteU64 over PermuteDomain, evaluated once
PermuteTable == [x \in PermuteDomain |-> PermuteU64(x[1], x[2], x[3])]

Permute(a, b, encoded) == PermuteTable[<<a, b, encoded>>]

Permuted(perms, encoded) ==
    LET left == PermRow(perms, 1)
        right == PermRow(perms, 2)
    IN  NdArray(left.shape,
                [k \in 1..Len(left.data) |-> Permute(left.data[k], right.data[k], encoded)])

\* numpy broadcasting of arrays of one or two dimensions
Shape2(a) == IF Len(a.shape) = 1 THEN <<1, a.shape[1]>> ELSE a.shape
Broadcastable(a, b) ==
    \A d \in 1..2 : Shape2(a)[d] = Shape2(b)[d] \/ Shape2(a)[d] = 1 \/ Shape2(b)[d] = 1
Larger(m, n) == IF m >= n THEN m ELSE n
At(a, i, j) ==
    LET r == IF Shape2(a)[1] = 1 THEN 1 ELSE i
        c == IF Shape2(a)[2] = 1 THEN 1 ELSE j
    IN  a.data[(r - 1) * Shape2(a)[2] + c]

\* np.minimum(a, b), for broadcastable a and b
Minimum(a, b) ==
    LET rows == Larger(Shape2(a)[1], Shape2(b)[1])
        cols == Larger(Shape2(a)[2], Shape2(b)[2])
        elem(k) == LET i == ((k - 1) \div cols) + 1
                       j == ((k - 1) % cols) + 1
                   IN  IF Less(At(a, i, j), At(b, i, j)) THEN At(a, i, j) ELSE At(b, i, j)
    IN  NdArray(IF Len(a.shape) = 1 /\ Len(b.shape) = 1 THEN <<cols>> ELSE <<rows, cols>>,
                [k \in 1..(rows * cols) |-> elem(k)] \o <<>>)

\* np.ones(self._hash_size, dtype=np.uint64) * MAX_HASH
InitialHashvalues(hash_size) == Full(<<hash_size>>, MAX_HASH)

RECURSIVE MinHashFold(_, _, _)
\* the loop of MinHashHashGenerator.hash over values, from hashvalues on
MinHashFold(perms, values, hashvalues) ==
    IF values = <<>> THEN Returned(AsUint64(hashvalues))
    ELSE LET permuted == Permuted(perms, Resize(mmh3_hash(Head(values)), U64Bytes))
         IN  IF Broadcastable(permuted, hashvalues)
             THEN MinHashFold(perms, Tail(values), Minimum(permuted, hashvalues))
             ELSE Raised("ValueError")

\* a hash that starts from the initial signature whatever it is given
MinHashHashFresh(g, values, hashvalues) ==
    MinHashFold(g.permutations, values, InitialHashvalues(g.hash_size))

\* MinHashHashGenerator.hash(values, hashvalues): hashvalues is NoValue or Some(array)
MinHashHash(g, values, hashvalues) ==
    MinHashFold(g.permutations, values,
                IF hashvalues = NoValue THEN InitialHashvalues(g.hash_size)
                ELSE Get(hashvalues))

\* a hash call that overwrites the coefficients of the generator
MinHashHashClobbering(g, values, hashvalues, h) ==
    [out |-> MinHashFold(g.permutations, values,
                         IF hashvalues = NoValue THEN InitialHashvalues(g.hash_size)
                         ELSE Get(hashvalues)),
     gen |-> [g EXCEPT !.permutations = Full(g.permutations.shape, <<3, 0, 0, 0, 0, 0, 0, 0>>)],
     heap |-> h]

\* the call as the caller sees it: its outcome, the generator and the heap afterwards
MinHashHashCall(g, values, hashvalues, h) ==
    [out |-> MinHashHash(g, values, hashvalues), gen |-> g, heap |-> h]

(***************************************************************************)
(* RandomProjectionsHashGenerator.  The normals are fixed-point numbers    *)
(* (thousandths); a vector is dense, or a scipy sparse column in CSR or    *)
(* COO format holding its non-zero entries.                                *)
(***************************************************************************)
Dims == {1, 2}

RPInit(hash_size, seed, dimension) ==
    LET base == BaseInit("RandomProjections", hash_size, seed)
    IN  [kind |-> base.kind, hash_size |-> base.hash_size, seed |-> base.seed,
         generator |-> [base.generator EXCEPT !.drawn = hash_size * dimension],
         dimension |-> dimension,
         normals |-> randn(base.generator, hash_size, dimension),
         normals_csr |-> NoValue]

RECURSIVE NonZerosFrom(_, _)
\* the <<column, value>> pairs of the non-zero entries of row, from column j on
NonZerosFrom(row, j) ==
    IF j > Len(row) THEN <<>>
    ELSE (IF row[j] # 0 THEN << <<j, row[j]>> >> ELSE <<>>) \o NonZerosFrom(row, j + 1)

\* csr_matrix(M) of a dense matrix M, a sequence of rows
CsrOfDense(M) ==
    [format |-> "csr",
     shape |-> <<Len(M), IF Len(M) = 0 THEN 0 ELSE Len(M[1])>>,
     rows |-> [i \in 1..Len(M) |-> NonZerosFrom(M[i], 1)]]

RECURSIVE RowOfCoo(_, _, _)
\* the <<column, value>> pairs of row i among COO entries k..
RowOfCoo(entries, i, k) ==
    IF k > Len(entries) THEN <<>>
    ELSE (IF entries[k][1] = i THEN << <<entries[k][2], entries[k][3]>> >> ELSE <<>>)
         \o RowOfCoo(entries, i, k + 1)

\* csr_matrix(c) of a COO matrix c
CsrOfCoo(c) ==
    [format |-> "csr", shape |-> c.shape,
     rows |-> [i \in 1..c.shape[1] |-> RowOfCoo(c.entries, i, 1)]]

\* the inputs: a vector v as a dense array, a CSR column and a COO column
DenseVector(v) == [format |-> "dense", shape |-> <<Len(v)>>, data |-> v]
CsrVector(v) == CsrOfDense([i \in 1..Len(v) |-> <<v[i]>>])
CooVector(v) ==
    LET nz == NonZerosFrom(v, 1)
    IN  [format |-> "coo", shape |-> <<Len(v), 1>>,
         entries |-> [k \in 1..Len(nz) |-> <<nz[k][1], 1, nz[k][2]>>]]

Vectors(dimension) == [1..dimension -> {-1, 0, 1}]
VectorInputs(dimension) ==
    UNION {{DenseVector(v), CsrVector(v), CooVector(v)} : v \in Vectors(dimension)}

issparse(values) == values.format # "dense"
isspmatrix_csr(values) == values.format = "csr"

RECURSIVE DenseDotFrom(_, _, _)
\* sum of row[j] * v[j] over j..Len(row)
DenseDotFrom(row, v, j) ==
    IF j > Len(row) THEN 0 ELSE row[j] * v[j] + DenseDotFrom(row, v, j + 1)

\* np.dot(self._normals, values)
DenseDot(M, v) == [i \in 1..Len(M) |-> DenseDotFrom(M[i], v, 1)]

\* the stored value of column vector V at row r, or nothing
Stored(V, r) == IF V.rows[r] = <<>> THEN NoValue ELSE Some(V.rows[r][1][2])

RECURSIVE SparseRowDot(_, _, _)
\* the products of the stored entries k.. of a CSR row with the stored entries of V
SparseRowDot(row, V, k) ==
    IF k > Len(row) THEN <<>>
    ELSE (IF Stored(V, row[k][1]) # NoValue
          THEN <<row[k][2] * Get(Stored(V, row[k][1]))>> ELSE <<>>)
         \o SparseRowDot(row, V, k + 1)

RECURSIVE SumSeq(_)
SumSeq(q) == IF q = <<>> THEN 0 ELSE Head(q) + SumSeq(Tail(q))

\* self._normals_csr.dot(values): a sparse column that stores row i when some
\* stored entries meet
SparseDot(A, V) ==
    [format |-> "csr", shape |-> <<A.shape[1], 1>>,
     rows |-> [i \in 1..A.shape[1] |->
                 LET terms == SparseRowDot(A.rows[i], V, 1)
                 IN  IF terms = <<>> THEN <<>> ELSE << <<1, SumSeq(terms)>> >>]]

\* [1 if x > 0 else 0 for x in projection], as uint64
Bit(positive) == IF positive THEN One64 ELSE Zero(U64Bytes)
SignsDense(projection) ==
    NdArray(<<Len(projection)>>, [i \in 1..Len(projection) |-> Bit(projection[i] > 0)])
\* x is a 1 x 1 sparse row; x > 0 is true when it stores a positive value
SignsSparse(projection) ==
    NdArray(<<projection.shape[1]>>,
            [i \in 1..projection.shape[1] |->
                Bit(projection.rows[i] # <<>> /\ projection.rows[i][1][2] > 0)])

\* csr_matrix(self._normals), a new object on the heap
NewCache(g, h) == Some([obj |-> h + 1, matrix |-> CsrOfDense(g.normals)])

\* RandomProjectionsHashGenerator.hash run to its end without interruption
RPHashCall(g, values, hashvalues, h) ==
    IF issparse(values)
    THEN LET build == g.normals_csr = NoValue
             cache == IF build THEN NewCache(g, h) ELSE g.normals_csr
             v == IF isspmatrix_csr(values) THEN values ELSE CsrOfCoo(values)
         IN  [out |-> Returned(SignsSparse(SparseDot(Get(cache).matrix, v))),
              gen |-> [g EXCEPT !.normals_csr = cache],
              heap |-> IF build THEN h + 1 ELSE h]
    ELSE [out |-> Returned(SignsDense(DenseDot(g.normals, values.data))),
          gen |-> g, heap |-> h]

\* a set_hash_permutations that drops the cached sparse basis
RPSetPermutationsDroppingCache(g, new_permutations) ==
    [out |-> [status |-> "ok", value |-> NoValue], gen |-> [g EXCEPT !.normals_csr = NoValue]]

\* RandomProjectionsHashGenerator.set_hash_permutations: pass
RPSetPermutations(g, new_permutations) ==
    [out |-> [status |-> "ok", value |-> NoValue], gen |-> g]

(***************************************************************************)
(* The two generators behind the BaseHashGenerator interface.              *)
(***************************************************************************)
HashCall(g, values, hashvalues, h) ==
    IF g.kind = "MinHash" THEN MinHashHashCall(g, values, hashvalues, h)
    ELSE RPHashCall(g, values, hashvalues, h)

SetPermutationsCall(g, new_permutations) ==
    IF g.kind = "MinHash" THEN MinHashSetPermutations(g, new_permutations)
    ELSE RPSetPermutations(g, new_permutations)

HashInputs(g) == IF g.kind = "MinHash" THEN TokenLists ELSE VectorInputs(g.dimension)

(***************************************************************************)
(* State: gens, the generator objects; heap, the number of sparse matrices *)
(* built so far; ret, the last call and its outcome; kept, the signature   *)
(* the caller holds from the last successful hash; calls, the number of    *)
(* calls made where a specification bounds it.                             *)
(***************************************************************************)
NoCall == [op |-> "none", g |-> 0, out |-> Raised("none")]

IdleCalls == heap = 0 /\ ret = NoCall /\ kept = NoValue /\ calls = 0
IdleIter == iter = NoValue
IdleThreads == thr = <<>>
IdleSim == sim = NoValue
IdleFold == fold = NoValue

\* g.set_hash_permutations(new_permutations); what it does to gens, heap, ret, kept
SetHashPermutations(g, new_permutations) ==
    /\ LET r == SetPermutationsCall(gens[g], new_permutations)
       IN  /\ gens' = [gens EXCEPT ![g] = r.gen]
           /\ ret' = [op |-> "set_hash_permutations", g |-> g, out |-> r.out]
    /\ UNCHANGED <<heap, kept>>

\* g.hash(values) or g.hash(values, s); the caller keeps the signature returned
Hash(g, values, hashvalues) ==
    /\ LET r == HashCall(gens[g], values, hashvalues, heap)
       IN  /\ gens' = [gens EXCEPT ![g] = r.gen]
           /\ heap' = r.heap
           /\ ret' = [op |-> "hash", g |-> g, out |-> r.out]
           /\ kept' = IF r.out.status = "ok"
                      THEN Some([owner |-> g, sig |-> Get(r.out.value)])
                      ELSE kept

\* what the caller can pass as the existing signature: nothing, or the signature
\* it holds from generator g
Existing(g) ==
    {NoValue} \cup (IF kept # NoValue /\ Get(kept).owner = g THEN {Some(Get(kept).sig)} ELSE {})

(***************************************************************************)
(* Spec: one MinHash generator and up to MaxCalls calls of its interface.  *)
(***************************************************************************)
Init ==
    /\ \E hash_size \in HashSizes, seed \in Seeds :
          gens = <<MinHashInit(hash_size, seed)>>
    /\ IdleCalls /\ IdleIter /\ IdleThreads /\ IdleSim /\ IdleFold

\* one more call, where a specification bounds their number
Budget == calls < MaxCalls /\ calls' = calls + 1

CallSetHashPermutations ==
    /\ Budget
    /\ \E g \in DOMAIN gens :
          \E arr \in PermArgs(gens[g].hash_size) : SetHashPermutations(g, arr)
    /\ UNCHANGED <<iter, thr, sim, fold>>

CallHash ==
    /\ Budget
    /\ \E g \in DOMAIN gens :
          \E values \in HashInputs(gens[g]), s \in Existing(g) : Hash(g, values, s)
    /\ UNCHANGED <<iter, thr, sim, fold>>

Next == CallSetHashPermutations \/ CallHash

Spec == Init /\ [][Next]_vars

(***************************************************************************)
(* Claims about the MinHash generator under Spec.                          *)
(***************************************************************************)
Coefficients(g, r) == PermRow(g.permutations, r).data

\* C1: set_hash_permutations raises the shape error (ValueError) for every
\* argument whose shape is not exactly (2, hash_size) and then leaves the
\* permutations as they were; for a (2, hash_size) argument it succeeds and the
\* permutations equal the argument.
C1_ShapeChecked ==
    [][\A g \in DOMAIN gens : \A arr \in PermArgs(gens[g].hash_size) :
          SetHashPermutations(g, arr) =>
              IF arr.shape = <<2, gens[g].hash_size>>
              THEN ret'.out.status = "ok" /\ gens'[g].permutations = arr
              ELSE /\ ret'.out.status = "ValueError"
                   /\ gens'[g].permutations = gens[g].permutations]_vars

\* a signature of generator g: hash_size elements
IsSignature(g, sig) == sig.shape = <<g.hash_size>>

\* C4: every signature returned by hash has length exactly hash_size; every
\* element of a MinHash signature is in [0, MAX_HASH], every element of a
\* random-projection signature is 0 or 1.
C4_SignatureShape ==
    (ret.op = "hash" /\ ret.out.status = "ok") =>
        LET g == gens[ret.g]
            sig == Get(ret.out.value)
        IN  /\ IsSignature(g, sig)
            /\ \A k \in 1..Len(sig.data) :
                  IF g.kind = "MinHash" THEN LessEq(sig.data[k], MAX_HASH)
                  ELSE sig.data[k] \in {Zero(U64Bytes), One64}

\* len(a) == len(b) == hash_size, every a_i in [1, MERSENNE_PRIME), every b_i in
\* [0, MERSENNE_PRIME)
PermutationSetOK(g) ==
    /\ g.permutations.shape = <<2, g.hash_size>>
    /\ \A i \in 1..Len(Coefficients(g, 1)) :
          /\ LessEq(One64, Coefficients(g, 1)[i])
          /\ Less(Coefficients(g, 1)[i], MERSENNE_PRIME)
          /\ Less(Coefficients(g, 2)[i], MERSENNE_PRIME)

\* C5: after construction and any sequence of set_hash_permutations and hash
\* calls the PermutationSet (a, b) has len(a) == len(b) == hash_size, a_i in
\* [1, MERSENNE_PRIME), b_i in [0, MERSENNE_PRIME); hash_size and seed never change.
C5_PermutationSetInvariant ==
    /\ [](\A g \in DOMAIN gens : gens[g].kind = "MinHash" => PermutationSetOK(gens[g]))
    /\ [][\A g \in DOMAIN gens :
            gens'[g].hash_size = gens[g].hash_size /\ gens'[g].seed = gens[g].seed]_vars

\* ((a * h + b) mod (2^61 - 1)) AND (2^32 - 1) over the mathematical integers
ExactPermute(a, b, encoded) ==
    BitAnd(ModMersenne(AddW(MulW(a, encoded, WideBytes), b, WideBytes)), MAX_HASH)

ExactTable == [x \in PermuteDomain |-> ExactPermute(x[1], x[2], x[3])]

RECURSIVE ExactFold(_, _, _, _)
\* the minimum of current and of the exact permuted values of the tokens
ExactFold(a, b, values, current) ==
    IF values = <<>> THEN current
    ELSE LET p == ExactTable[<<a, b, Resize(mmh3_hash(Head(values)), U64Bytes)>>]
         IN  ExactFold(a, b, Tail(values), IF Less(p, current) THEN p ELSE current)

\* C9: with a_i in [1, MERSENNE_PRIME) and b_i in [0, MERSENNE_PRIME), position i
\* of the signature hash returns is the minimum, over the tokens and the initial
\* value, of ((a_i * h + b_i) mod (2^61 - 1)) AND (2^32 - 1) computed without
\* wrap-around.
C9_NoWrapAround ==
    [][\A g \in DOMAIN gens : \A values \in TokenLists, s \in Existing(g) :
          (/\ gens[g].kind = "MinHash"
           /\ PermutationSetOK(gens[g])
           /\ (s # NoValue => IsSignature(gens[g], Get(s)))
           /\ Hash(g, values, s)
           /\ ret'.out.status = "ok") =>
              \A i \in 1..gens[g].hash_size :
                  Get(ret'.out.value).data[i] =
                      ExactFold(Coefficients(gens[g], 1)[i], Coefficients(gens[g], 2)[i], values,
                                IF s = NoValue THEN MAX_HASH ELSE Get(s).data[i])]_vars

(***************************************************************************)
(* SpecFold: one MinHash generator, as constructed or as one accepted      *)
(* set_hash_permutations call leaves it, and token lists A and B.  The     *)
(* caller hashes B, folds A into the result, and hashes B ++ A and A ++ B  *)
(* in one call each.                                                       *)
(***************************************************************************)
\* the generators a program can hold after construction and one set_hash_permutations
LoadedGenerators(hash_size, seed) ==
    {MinHashSetPermutations(MinHashInit(hash_size, seed), arr).gen :
        arr \in {Full(<<2, hash_size>>, Zero(U64Bytes)),
                 Full(<<2, hash_size, 1>>, <<3, 0, 0, 0, 0, 0, 0, 0>>),
                 Full(<<3, hash_size>>, Zero(U64Bytes))}
                \cup {DrawPermutations(RandomState(other), hash_size) : other \in Seeds}}

InitFold ==
    /\ \E hash_size \in HashSizes, seed \in Seeds :
          \E g \in LoadedGenerators(hash_size, seed) : gens = <<g>>
    /\ \E A \in TokenLists, B \in TokenLists :
          fold = [pc |-> "start", A |-> A, B |-> B, first |-> NoValue,
                  incremental |-> NoValue, refolded |-> NoValue,
                  wholeBA |-> NoValue, wholeAB |-> NoValue]
    /\ IdleCalls /\ IdleIter /\ IdleThreads /\ IdleSim

\* first = hash(B)
FoldFirst ==
    /\ fold.pc = "start"
    /\ Hash(1, fold.B, NoValue)
    /\ fold' = [fold EXCEPT !.pc = "first", !.first = ret'.out.value]
    /\ UNCHANGED <<calls, iter, thr, sim>>

\* incremental = hash(A, first); refolded = hash([], incremental)
FoldSecond ==
    /\ fold.pc = "first"
    /\ Hash(1, fold.A, fold.first)
    /\ fold' = [fold EXCEPT !.pc = "second", !.incremental = ret'.out.value,
                            !.refolded = HashCall(gens[1], <<>>, ret'.out.value, heap).out.value]
    /\ UNCHANGED <<calls, iter, thr, sim>>

\* wholeBA = hash(B ++ A)
FoldWholeBA ==
    /\ fold.pc = "second"
    /\ Hash(1, fold.B \o fold.A, NoValue)
    /\ fold' = [fold EXCEPT !.pc = "third", !.wholeBA = ret'.out.value]
    /\ UNCHANGED <<calls, iter, thr, sim>>

\* wholeAB = hash(A ++ B)
FoldWholeAB ==
    /\ fold.pc = "third"
    /\ Hash(1, fold.A \o fold.B, NoValue)
    /\ fold' = [fold EXCEPT !.pc = "done", !.wholeAB = ret'.out.value]
    /\ UNCHANGED <<calls, iter, thr, sim>>

NextFold == FoldFirst \/ FoldSecond \/ FoldWholeBA \/ FoldWholeAB

SpecFold == InitFold /\ [][NextFold]_vars

\* C3: for a generator with fixed permutations and token lists A and B,
\* hash(A, hash(B)) == hash(B ++ A) == hash(A ++ B), and hash([], s) == s.
C3_IncrementalFold ==
    /\ fold.pc \in {"second", "third", "done"} =>
          fold.incremental # NoValue /\ fold.refolded = fold.incremental
    /\ fold.pc \in {"third", "done"} => fold.wholeBA = fold.incremental
    /\ fold.pc = "done" => fold.wholeAB = fold.incremental

\* both lists non-empty and different, and folding A changed the signature of B
C3_Witness ==
    /\ fold.pc = "done"
    /\ fold.A # <<>> /\ fold.B # <<>> /\ fold.A # fold.B
    /\ fold.incremental # fold.first
    /\ fold.incremental # Some(InitialHashvalues(gens[1].hash_size))
    /\ fold.wholeAB = fold.incremental

(***************************************************************************)
(* SpecDet: two generators of one class, each freshly constructed, serving *)
(* hash calls in any order.                                                *)
(***************************************************************************)
Constructed ==
    [MinHash |-> {MinHashInit(n, seed) : n \in HashSizes, seed \in Seeds},
     RandomProjections |-> {RPInit(n, seed, d) : n \in HashSizes, seed \in Seeds, d \in Dims}]

InitDet ==
    /\ \E kind \in DOMAIN Constructed :
          \E g1 \in Constructed[kind], g2 \in Constructed[kind] :
              /\ g1.hash_size = g2.hash_size
              /\ gens = <<g1, g2>>
    /\ IdleCalls /\ IdleIter /\ IdleThreads /\ IdleSim /\ IdleFold

DetHash ==
    /\ \E g \in DOMAIN gens :
          \E values \in HashInputs(gens[g]), s \in Existing(g) : Hash(g, values, s)
    /\ UNCHANGED <<calls, iter, thr, sim, fold>>

NextDet == DetHash

SpecDet == InitDet /\ [][NextDet]_vars

\* the constructor arguments of a generator
Config(g) ==
    <<g.kind, g.hash_size, g.seed, IF g.kind = "MinHash" THEN 0 ELSE g.dimension>>

\* the PermutationSet or the ProjectionBasis
Parameters(g) == IF g.kind = "MinHash" THEN g.permutations ELSE g.normals

\* the generator its constructor returns for the arguments g was built with
Fresh(g) ==
    IF g.kind = "MinHash" THEN MinHashInit(g.hash_size, g.seed)
    ELSE RPInit(g.hash_size, g.seed, g.dimension)

Records(g) ==
    IF g.kind = "MinHash" THEN {values \in TokenLists : Len(values) <= 1}
    ELSE UNION {{DenseVector(v), CsrVector(v)} :
                   v \in {[i \in 1..g.dimension |-> 1], [i \in 1..g.dimension |-> -1]}}
RecordLists(g) == SeqsUpTo(Records(g), MaxRecords)

\* generate_hashes(records): the generator object, its body not yet entered
Created(records) ==
    [records |-> records, pos |-> 0, state |-> "suspended", requests |-> 0,
     hashes |-> 0, yielded |-> <<>>]

\* a loop that reads the first record again
FirstRecord(it) == it.records[1]

\* for v in instances: the record the loop reads next
NextRecord(it) == it.records[it.pos + 1]

InitGen ==
    /\ \E kind \in DOMAIN Constructed : \E g \in Constructed[kind] : gens = <<g>>
    /\ IdleCalls /\ IdleIter /\ IdleThreads /\ IdleSim /\ IdleFold

\* it = g.generate_hashes(records)
GenerateHashes ==
    /\ iter = NoValue
    /\ \E records \in RecordLists(gens[1]) : iter' = Some(Created(records))
    /\ UNCHANGED <<gens, heap, ret, kept, calls, thr, sim, fold>>

\* next(it) with a record left: the body runs to its yield
IterYield ==
    /\ iter # NoValue
    /\ Get(iter).state = "suspended"
    /\ Get(iter).pos < Len(Get(iter).records)
    /\ Hash(1, NextRecord(Get(iter)), NoValue)
    /\ iter' = Some([Get(iter) EXCEPT !.pos = @ + 1, !.requests = @ + 1, !.hashes = @ + 1,
                                      !.yielded = Append(@, ret'.out)])
    /\ UNCHANGED <<calls, thr, sim, fold>>

\* next(it) with no record left: StopIteration
IterStop ==
    /\ iter # NoValue
    /\ Get(iter).state = "suspended"
    /\ Get(iter).pos = Len(Get(iter).records)
    /\ iter' = Some([Get(iter) EXCEPT !.state = "finished", !.requests = @ + 1])
    /\ ret' = [op |-> "next", g |-> 1, out |-> Raised("StopIteration")]
    /\ UNCHANGED <<gens, heap, kept, calls, thr, sim, fold>>

NextGen == GenerateHashes \/ IterYield \/ IterStop

SpecGen == InitGen /\ [][NextGen]_vars

\* C7: generate_hashes yields one signature per record, the k-th equal to
\* hash(records[k]) with no existing signature, in order; the hash of record
\* k is computed only once the consumer has requested item k, and the
\* sequence ends exactly when the records are exhausted.
C7_LazyInOrder ==
    iter # NoValue =>
        LET it == Get(iter)
        IN  /\ Len(it.yielded) = it.pos /\ it.pos <= Len(it.records)
            /\ it.hashes = it.pos
            /\ it.hashes = IF it.state = "finished" THEN it.requests - 1 ELSE it.requests
            /\ it.state = "finished" => it.pos = Len(it.records)
            /\ \A k \in 1..it.pos :
                  it.yielded[k] = HashCall(gens[1], it.records[k], NoValue, heap).out

\* the consumer has taken one of two different records and no later one was hashed
C7_Witness ==
    /\ iter # NoValue
    /\ Len(Get(iter).records) = MaxRecords
    /\ Get(iter).records[1] # Get(iter).records[MaxRecords]
    /\ Get(iter).requests = 1 /\ Get(iter).hashes = 1
    /\ Get(iter).yielded[1].status = "ok"
    /\ Get(iter).yielded[1] # HashCall(gens[1], Get(iter).records[MaxRecords], NoValue, heap).out

(***************************************************************************)
(* SpecRP: one random-projection generator serving set_hash_permutations   *)
(* and hash calls, one at a time.                                          *)
(***************************************************************************)
\* what a caller may pass a random-projection generator as existing signature
RPExisting(g) ==
    Existing(1) \cup {Some(Full(<<g.hash_size>>, MAX_HASH)),
                      Some(Full(<<g.hash_size + 1>>, Zero(U64Bytes)))}

InitRP ==
    /\ \E g \in Constructed["RandomProjections"] : gens = <<g>>
    /\ IdleCalls /\ IdleIter /\ IdleThreads /\ IdleSim /\ IdleFold

RPSet ==
    /\ \E arr \in PermArgs(gens[1].hash_size) : SetHashPermutations(1, arr)
    /\ UNCHANGED <<calls, iter, thr, sim, fold>>

RPHash ==
    /\ \E values \in HashInputs(gens[1]), s \in RPExisting(gens[1]) : Hash(1, values, s)
    /\ UNCHANGED <<calls, iter, thr, sim, fold>>

NextRP == RPSet \/ RPHash

SpecRP == InitRP /\ [][NextRP]_vars

\* C8: on a random-projection generator set_hash_permutations(x) is a no-op
\* for every x, never an error, leaving basis, cached sparse basis,
\* hash_size, seed and dimension unchanged; hash(v, s) returns what hash(v)
\* returns for every s, so the signature of v is what the freshly
\* constructed generator returns, after any sequence of calls.
C8_NoOpAndIndependent ==
    /\ [](LET g == gens[1]
          IN  /\ \A arr \in PermArgs(g.hash_size) :
                    /\ SetPermutationsCall(g, arr).gen = g
                    /\ SetPermutationsCall(g, arr).out.status = "ok"
              /\ \A values \in HashInputs(g), s \in RPExisting(g) :
                    /\ HashCall(g, values, s, heap).out = HashCall(g, values, NoValue, heap).out
                    /\ HashCall(g, values, s, heap).out
                          = HashCall(RPInit(g.hash_size, g.seed, g.dimension), values, NoValue, 0).out)
    /\ [][(\E arr \in PermArgs(gens[1].hash_size) : SetHashPermutations(1, arr))
             => gens' = gens]_vars

\* set_hash_permutations has just returned on a generator that holds a cached
\* sparse basis, and the caller holds a signature it could pass to hash
C8_Witness ==
    /\ ret.op = "set_hash_permutations" /\ ret.out.status = "ok"
    /\ gens[1].normals_csr # NoValue
    /\ kept # NoValue
    /\ \E b \in DOMAIN Get(kept).sig.data : Get(kept).sig.data[b] = One64

(***************************************************************************)
(* SpecRace: one random-projection generator and MaxThreads threads, each  *)
(* making one hash call; a thread may be suspended between any two of its  *)
(* steps.  thr[t] is the position of thread t in hash, its argument, the   *)
(* matrix it has built and not yet stored, and what it returned.           *)
(***************************************************************************)
MaxThreads == 2
Threads == 1..MaxThreads

ThreadIdle == [pc |-> "idle", values |-> NoValue, built |-> NoValue, out |-> NoValue]

InitRace ==
    /\ \E g \in Constructed["RandomProjections"] : gens = <<g>>
    /\ thr = [t \in Threads |-> ThreadIdle]
    /\ IdleCalls /\ IdleIter /\ IdleSim /\ IdleFold

\* thread t enters hash(values)
ThreadCall(t) ==
    /\ thr[t].pc = "idle"
    /\ \E values \in HashInputs(gens[1]) :
          thr' = [thr EXCEPT ![t] = [@ EXCEPT !.pc = "issparse", !.values = Some(values)]]
    /\ UNCHANGED <<gens, heap, ret, kept, calls, iter, sim, fold>>

\* if issparse(values):
ThreadIsSparse(t) ==
    /\ thr[t].pc = "issparse"
    /\ thr' = [thr EXCEPT ![t].pc = IF issparse(Get(thr[t].values)) THEN "is_none" ELSE "dense"]
    /\ UNCHANGED <<gens, heap, ret, kept, calls, iter, sim, fold>>

\* if self._normals_csr is None:
ThreadIsNone(t) ==
    /\ thr[t].pc = "is_none"
    /\ thr' = [thr EXCEPT ![t].pc = IF gens[1].normals_csr = NoValue THEN "build" ELSE "dot"]
    /\ UNCHANGED <<gens, heap, ret, kept, calls, iter, sim, fold>>

\* csr_matrix(self._normals)
ThreadBuild(t) ==
    /\ thr[t].pc = "build"
    /\ thr' = [thr EXCEPT ![t] = [@ EXCEPT !.pc = "store", !.built = NewCache(gens[1], heap)]]
    /\ heap' = heap + 1
    /\ UNCHANGED <<gens, ret, kept, calls, iter, sim, fold>>

\* self._normals_csr = the matrix built
ThreadStore(t) ==
    /\ thr[t].pc = "store"
    /\ gens' = [gens EXCEPT ![1].normals_csr = thr[t].built]
    /\ thr' = [thr EXCEPT ![t] = [@ EXCEPT !.pc = "dot", !.built = NoValue]]
    /\ UNCHANGED <<heap, ret, kept, calls, iter, sim, fold>>

\* the rest of the sparse branch and the return
ThreadDot(t) ==
    /\ thr[t].pc = "dot"
    /\ LET values == Get(thr[t].values)
           v == IF isspmatrix_csr(values) THEN values ELSE CsrOfCoo(values)
           out == Returned(SignsSparse(SparseDot(Get(gens[1].normals_csr).matrix, v)))
       IN  /\ thr' = [thr EXCEPT ![t] = [@ EXCEPT !.pc = "returned", !.out = Some(out)]]
           /\ ret' = [op |-> "hash", g |-> 1, out |-> out]
    /\ UNCHANGED <<gens, heap, kept, calls, iter, sim, fold>>

\* the dense branch and the return
ThreadDense(t) ==
    /\ thr[t].pc = "dense"
    /\ LET out == Returned(SignsDense(DenseDot(gens[1].normals, Get(thr[t].values).data)))
       IN  /\ thr' = [thr EXCEPT ![t] = [@ EXCEPT !.pc = "returned", !.out = Some(out)]]
           /\ ret' = [op |-> "hash", g |-> 1, out |-> out]
    /\ UNCHANGED <<gens, heap, kept, calls, iter, sim, fold>>

Call == \E t \in Threads : ThreadCall(t)
IsSparse == \E t \in Threads : ThreadIsSparse(t)
IsNone == \E t \in Threads : ThreadIsNone(t)
Build == \E t \in Threads : ThreadBuild(t)
Store == \E t \in Threads : ThreadStore(t)
Dot == \E t \in Threads : ThreadDot(t)
Dense == \E t \in Threads : ThreadDense(t)

NextRace == Call \/ IsSparse \/ IsNone \/ Build \/ Store \/ Dot \/ Dense

SpecRace == InitRace /\ [][NextRace]_vars

\* C10: the cached sparse basis is absent until the first sparse hash call,
\* and under every interleaving of concurrent sparse hash calls it is built
\* at most once and never overwritten once populated; every call computes
\* its projection from a basis equal to the dense one.
C10_CacheBuiltOnce ==
    /\ [](/\ heap <= 1
          /\ (\A t \in Threads : thr[t].values = NoValue \/ ~issparse(Get(thr[t].values)))
                => gens[1].normals_csr = NoValue
          /\ gens[1].normals_csr # NoValue
                => Get(gens[1].normals_csr).matrix = CsrOfDense(gens[1].normals))
    /\ [][gens[1].normals_csr # NoValue => gens'[1].normals_csr = gens[1].normals_csr]_vars

(***************************************************************************)
(* similarity_score.  A float16 is nan, inf, or a finite value held as a   *)
(* whole number of units of 2^-24, the spacing of the smallest float16;    *)
(* the values that arise are whole numbers (a count, a length) and         *)
(* quotients between 0 and 1.                                              *)
(***************************************************************************)
Unit == 2^24
Finite(units) == [class |-> "finite", units |-> units]
Inf == [class |-> "inf", units |-> 0]
NaN == [class |-> "nan", units |-> 0]

\* num / den rounded to the nearest whole number, ties to even
RoundHalfEven(num, den) ==
    LET q == num \div den
        r == num % den
    IN  IF 2 * r > den \/ (2 * r = den /\ q % 2 = 1) THEN q + 1 ELSE q

RECURSIVE BitLength(_)
BitLength(n) == IF n = 0 THEN 0 ELSE 1 + BitLength(n \div 2)

\* np.float16(n) for a whole number n >= 0, as a whole number or inf: n keeps
\* its 11 leading bits, and rounds to inf from 65520 on
Float16OfNat(n) ==
    LET step == IF BitLength(n) <= 11 THEN 1 ELSE 2^(BitLength(n) - 11)
        r == RoundHalfEven(n, step) * step
    IN  IF r >= 2^16 THEN Inf ELSE [class |-> "whole", units |-> r]

RECURSIVE ShiftUp(_, _, _)
\* the least s >= from with c * 2^s >= n
ShiftUp(c, n, from) == IF c * 2^from >= n THEN from ELSE ShiftUp(c, n, from + 1)

\* the float16 nearest to c / n, for whole numbers 0 <= c <= n, n > 0
NearestQuotient(c, n) ==
    IF c = 0 THEN Finite(0)
    ELSE LET s == ShiftUp(c, n, 0)
         IN  IF s <= 14 THEN Finite(RoundHalfEven(c * 2^s * 2^10, n) * 2^(14 - s))
             ELSE Finite(RoundHalfEven(c * Unit, n))

\* x / y for two float16 that hold whole numbers or inf, x <= y
Float16Div(x, y) ==
    IF x.class = "inf" THEN (IF y.class = "inf" THEN NaN ELSE Inf)
    ELSE IF y.class = "inf" THEN Finite(0)
    ELSE IF y.units = 0 THEN (IF x.units = 0 THEN NaN ELSE Inf)
    ELSE NearestQuotient(x.units, y.units)

\* len(a) of an ndarray
len(a) == a.shape[1]

\* np.count_nonzero(left == right), for two 1-d arrays of one length
CountEqual(left, right) ==
    Cardinality({i \in 1..len(left) : left.data[i] = right.data[i]})

\* BaseHashGenerator.similarity_score(left_hashvalues, right_hashvalues)
similarity_score(left_hashvalues, right_hashvalues) ==
    IF len(left_hashvalues) # len(right_hashvalues) THEN Raised("ValueError")
    ELSE Returned(Float16Div(Float16OfNat(CountEqual(left_hashvalues, right_hashvalues)),
                             Float16OfNat(len(left_hashvalues))))

(***************************************************************************)
(* SpecSim: similarity_score applied to a pair of signatures: every pair   *)
(* of 0/1 signatures of up to MaxSigLen positions, and pairs of signatures *)
(* of LongLen positions, as a MinHash generator of that hash_size returns. *)
(***************************************************************************)
LongLen == 2^11 + 1

SignatureValues == {Zero(U64Bytes), One64}
ShortSignatures ==
    UNION {{NdArray(<<n>>, data) : data \in [1..n -> SignatureValues]} : n \in 1..MaxSigLen}

\* a signature of n positions: zeros, then ones from position `from` on
Stepped(n, from) ==
    NdArray(<<n>>, [i \in 1..n |-> IF i >= from THEN One64 ELSE Zero(U64Bytes)])

LongPairs ==
    {<<Stepped(LongLen, LongLen + 1), Stepped(LongLen, from)>> :
        from \in {1, 2, LongLen, LongLen + 1}}

InitSim ==
    /\ \E pair \in (ShortSignatures \X ShortSignatures) \cup LongPairs :
          sim = Some([left |-> pair[1], right |-> pair[2], out |-> NoValue])
    /\ gens = <<>>
    /\ IdleCalls /\ IdleIter /\ IdleThreads /\ IdleFold

SimilarityScore ==
    /\ Get(sim).out = NoValue
    /\ sim' = Some([Get(sim) EXCEPT !.out = Some(similarity_score(Get(sim).left, Get(sim).right))])
    /\ UNCHANGED <<gens, heap, ret, kept, calls, iter, thr, fold>>

NextSim == SimilarityScore

SpecSim == InitSim /\ [][NextSim]_vars

\* C2: similarity_score fails with the length-mismatch error exactly when
\* the lengths differ; for equal lengths it returns the number of equal
\* positions divided by the length (the float16 nearest to that quotient),
\* a value in [0.0, 1.0] that is 1.0 for equal signatures and 0.0 for
\* signatures that differ in every position.
C2_SimilarityScore ==
    Get(sim).out # NoValue =>
        LET left == Get(sim).left
            right == Get(sim).right
            out == Get(Get(sim).out)
        IN  /\ out.status = "ValueError" <=> len(left) # len(right)
            /\ len(left) = len(right) =>
                  /\ out.status = "ok"
                  /\ Get(out.value) = NearestQuotient(CountEqual(left, right), len(left))
                  /\ Get(out.value).class = "finite"
                  /\ Get(out.value).units >= 0 /\ Get(out.value).units <= Unit
                  /\ left = right => Get(out.value) = Finite(Unit)
                  /\ CountEqual(left, right) = 0 => Get(out.value) = Finite(0)

====
